---- MODULE Spec2Model ----
(***************************************************************************)
(* Model of the LLM dispatch core of ai-summary (src/llm_provider.py):     *)
(* the three provider adapters, the LLMService registry, tiered model      *)
(* fallback in generate_content and cross-provider fallback in             *)
(* generate_content_with_media.                                            *)
(***************************************************************************)
EXTENDS Integers, Sequences, FiniteSets, TLC

VARIABLES
    providers,        \* LLMService.providers: registered names, insertion order
    default_provider, \* LLMService.default_provider
    heavy_models,     \* LLMService.heavy_models
    light_models,     \* LLMService.light_models
    model_name,       \* provider name -> that adapter's model_name
    pc,               \* position of the dispatch call in flight
    args,             \* arguments of the dispatch call in flight
    provider_name,    \* local provider_name of the call (after resolution)
    models,           \* local models of generate_content
    idx,              \* index in models of the next candidate
    fallback_provider,\* local fallback_provider of generate_content_with_media
    calls,            \* adapter calls made by the dispatch call in flight
    result,           \* what the dispatch call returned or raised
    probe,            \* a function under examination: its input and its output
    requests,         \* generate_content calls in flight on concurrent threads
    startup,          \* the construction of llm_service: its argument and environment
    helper,           \* the genai_helper function in progress
    poll,             \* the content thread of main.py and the tables it reads and writes
    slug              \* the generate_slug call in progress

vars == <<providers, default_provider, heavy_models, light_models, model_name,
          pc, args, provider_name, models, idx, fallback_provider, calls, result,
          probe, requests, startup, helper, poll, slug>>

\* the state a step of a dispatch call has no access to
elsewhere == <<probe, requests, startup, helper, poll, slug>>

config == <<providers, default_provider, heavy_models, light_models>>

(***************************************************************************)
(* Bounds                                                                  *)
(***************************************************************************)
\* longest HEAVY_MODELS / LIGHT_MODELS list
MaxModels == 2
\* most threads calling generate_content at the same time
MaxRequests == 2

None == "None"

(***************************************************************************)
(* Values                                                                  *)
(***************************************************************************)
\* order in which init_providers registers adapters
ProviderOrder == <<"litellm", "gemini", "openrouter">>

ProviderNames == {ProviderOrder[i] : i \in 1..Len(ProviderOrder)}

\* the provider argument of a dispatch call: omitted, a known name, an unknown name
ProviderArgs == {None, "gemini", "openrouter", "gamma"}

Tiers == {"heavy", "light", "medium"}

Prompts == {"hi"}

MediaFiles == {"talk.mp3", "shot.png"}

\* mimetypes.guess_type on the media path
guess_type(media_file) ==
    CASE media_file = "talk.mp3" -> "audio/mpeg"
      [] media_file = "shot.png" -> "image/png"
      [] OTHER -> None

\* mime_type.startswith("image/")
IsImage(mime_type) == mime_type \in {"image/png"}

\* what a backend can answer with: a text, a response without choices
\* (for Gemini: without a text attribute), and a response whose first choice
\* has a message without content (message.content is None)
NoChoices == "<no choices>"
NoContent == "<no content>"
BackendReplies == {"ok", NoChoices, NoContent}

\* messages of the exceptions a backend call can raise
BackendMessages == {"Rate limit error", "resource exhausted", "invalid request"}

(***************************************************************************)
(* Strings                                                                 *)
(***************************************************************************)
\* the messages of the model, character by character
Spell ==
       "<response>" :>
           <<"<", "r", "e", "s", "p", "o", "n", "s", "e", ">">> @@
       "ok" :>
           <<"o", "k">> @@
       "h1" :>
           <<"h", "1">> @@
       "h2" :>
           <<"h", "2">> @@
       "l1" :>
           <<"l", "1">> @@
       "l2" :>
           <<"l", "2">> @@
       "h1,h2" :>
           <<"h", "1", ",", "h", "2">> @@
       "h1,,h2," :>
           <<"h", "1", ",", ",", "h", "2", ",">> @@
       ",l1,l2" :>
           <<",", "l", "1", ",", "l", "2">> @@
       "quota exceeded" :>
           <<"q", "u", "o", "t", "a", " ", "e", "x", "c", "e", "e", "d", "e", "d">> @@
       "resource exhausted" :>
           <<"r", "e", "s", "o", "u", "r", "c", "e", " ", "e", "x", "h", "a", "u", "s", "t", "e", "d">> @@
       "rate limit" :>
           <<"r", "a", "t", "e", " ", "l", "i", "m", "i", "t">> @@
       "too many requests" :>
           <<"t", "o", "o", " ", "m", "a", "n", "y", " ", "r", "e", "q", "u", "e", "s", "t", "s">> @@
       "429" :>
           <<"4", "2", "9">> @@
       "exceeded your current quota" :>
           <<"e", "x", "c", "e", "e", "d", "e", "d", " ", "y", "o", "u", "r", " ", "c", "u", "r", "r", "e", "n", "t", " ", "q", "u", "o", "t", "a">> @@
       "Rate limit error" :>
           <<"R", "a", "t", "e", " ", "l", "i", "m", "i", "t", " ", "e", "r", "r", "o", "r">> @@
       "invalid request" :>
           <<"i", "n", "v", "a", "l", "i", "d", " ", "r", "e", "q", "u", "e", "s", "t">> @@
       "Media handling not yet implemented for LiteLLM provider." :>
           <<"M", "e", "d", "i", "a", " ", "h", "a", "n", "d", "l", "i", "n", "g", " ", "n", "o", "t", " ", "y", "e", "t", " ", "i", "m", "p", "l", "e", "m", "e", "n", "t", "e", "d", " ", "f", "o", "r", " ", "L", "i", "t", "e", "L", "L", "M", " ", "p", "r", "o", "v", "i", "d", "e", "r", ".">> @@
       "Media type audio/mpeg not supported by OpenRouter provider" :>
           <<"M", "e", "d", "i", "a", " ", "t", "y", "p", "e", " ", "a", "u", "d", "i", "o", "/", "m", "p", "e", "g", " ", "n", "o", "t", " ", "s", "u", "p", "p", "o", "r", "t", "e", "d", " ", "b", "y", " ", "O", "p", "e", "n", "R", "o", "u", "t", "e", "r", " ", "p", "r", "o", "v", "i", "d", "e", "r">> @@
       "No LLM providers available" :>
           <<"N", "o", " ", "L", "L", "M", " ", "p", "r", "o", "v", "i", "d", "e", "r", "s", " ", "a", "v", "a", "i", "l", "a", "b", "l", "e">> @@
       "All models in the tier failed." :>
           <<"A", "l", "l", " ", "m", "o", "d", "e", "l", "s", " ", "i", "n", " ", "t", "h", "e", " ", "t", "i", "e", "r", " ", "f", "a", "i", "l", "e", "d", ".">> @@
       "Quota Exceeded for project" :>
           <<"Q", "u", "o", "t", "a", " ", "E", "x", "c", "e", "e", "d", "e", "d", " ", "f", "o", "r", " ", "p", "r", "o", "j", "e", "c", "t">> @@
       "RESOURCE EXHAUSTED" :>
           <<"R", "E", "S", "O", "U", "R", "C", "E", " ", "E", "X", "H", "A", "U", "S", "T", "E", "D">> @@
       "Too Many Requests" :>
           <<"T", "o", "o", " ", "M", "a", "n", "y", " ", "R", "e", "q", "u", "e", "s", "t", "s">> @@
       "HTTP 429" :>
           <<"H", "T", "T", "P", " ", "4", "2", "9">> @@
       "429 You exceeded your current quota" :>
           <<"4", "2", "9", " ", "Y", "o", "u", " ", "e", "x", "c", "e", "e", "d", "e", "d", " ", "y", "o", "u", "r", " ", "c", "u", "r", "r", "e", "n", "t", " ", "q", "u", "o", "t", "a">> @@
       "Invalid Request" :>
           <<"I", "n", "v", "a", "l", "i", "d", " ", "R", "e", "q", "u", "e", "s", "t">> @@
       "API Error" :>
           <<"A", "P", "I", " ", "E", "r", "r", "o", "r">> @@
       "" :>
           <<>> @@
       "rate-limit" :>
           <<"r", "a", "t", "e", "-", "l", "i", "m", "i", "t">> @@
       "quota" :>
           <<"q", "u", "o", "t", "a">> @@
       "Resource  exhausted" :>
           <<"R", "e", "s", "o", "u", "r", "c", "e", " ", " ", "e", "x", "h", "a", "u", "s", "t", "e", "d">> @@
       "42 9" :>
           <<"4", "2", " ", "9">> @@
       "timeout" :>
           <<"t", "i", "m", "e", "o", "u", "t">>

UpperCaseLetters == <<"A", "B", "C", "D", "E", "F", "G", "H", "I", "J", "K", "L", "M",
                      "N", "O", "P", "Q", "R", "S", "T", "U", "V", "W", "X", "Y", "Z">>
LowerCaseLetters == <<"a", "b", "c", "d", "e", "f", "g", "h", "i", "j", "k", "l", "m",
                      "n", "o", "p", "q", "r", "s", "t", "u", "v", "w", "x", "y", "z">>

\* mutant: the case of the message is kept
lower_Same(chars) == chars

\* str.lower()
lower(chars) ==
    [i \in 1..Len(chars) |->
        IF \E k \in 1..Len(UpperCaseLetters) : UpperCaseLetters[k] = chars[i]
        THEN LowerCaseLetters[CHOOSE k \in 1..Len(UpperCaseLetters) :
                                  UpperCaseLetters[k] = chars[i]]
        ELSE chars[i]]

\* Python's "sub in chars" on strings
Contains(chars, sub) ==
    \E i \in 1..(Len(chars) - Len(sub) + 1) : SubSeq(chars, i, i + Len(sub) - 1) = sub

\* the pieces of chars between the occurrences of sep
RECURSIVE SplitChars(_, _)
SplitChars(chars, sep) ==
    IF \A i \in 1..Len(chars) : chars[i] # sep
    THEN <<chars>>
    ELSE LET i == CHOOSE k \in 1..Len(chars) :
                      chars[k] = sep /\ \A j \in 1..(k - 1) : chars[j] # sep
         IN  <<SubSeq(chars, 1, i - 1)>> \o SplitChars(SubSeq(chars, i + 1, Len(chars)), sep)

\* the string spelled chars
Word(chars) == CHOOSE w \in DOMAIN Spell : Spell[w] = chars

\* mutant: empty entries are left out
split_NonEmpty(s, sep) ==
    LET pieces == SplitChars(Spell[s], sep)
    IN  SelectSeq([i \in 1..Len(pieces) |-> Word(pieces[i])], LAMBDA w : w # "")

\* str.split(sep)
split(s, sep) ==
    LET pieces == SplitChars(Spell[s], sep)
    IN  [i \in 1..Len(pieces) |-> Word(pieces[i])]

\* the strings of list joined by sep, as characters
RECURSIVE JoinChars(_, _)
JoinChars(list, sep) ==
    IF list = <<>> THEN <<>>
    ELSE IF Len(list) = 1 THEN Spell[list[1]]
    ELSE Spell[list[1]] \o <<sep>> \o JoinChars(Tail(list), sep)

\* sep.join(list)
join(sep, list) == Word(JoinChars(list, sep))

Whitespace == {" ", "\n", "\t"}

\* str.strip(), on characters
RECURSIVE StripChars(_)
StripChars(chars) ==
    IF chars = <<>> THEN chars
    ELSE IF Head(chars) \in Whitespace THEN StripChars(Tail(chars))
    ELSE IF chars[Len(chars)] \in Whitespace
    THEN StripChars(SubSeq(chars, 1, Len(chars) - 1))
    ELSE chars

\* re.sub(r'\s+', ' ', chars): every run of whitespace becomes one space
RECURSIVE CollapseChars(_)
CollapseChars(chars) ==
    IF chars = <<>> THEN chars
    ELSE IF Head(chars) \in Whitespace
    THEN IF Len(chars) > 1 /\ chars[2] \in Whitespace
         THEN CollapseChars(Tail(chars))
         ELSE <<" ">> \o CollapseChars(Tail(chars))
    ELSE <<Head(chars)>> \o CollapseChars(Tail(chars))

\* the phrases the is_rate_limited methods look for
KnownPhrases == {"quota exceeded", "resource exhausted", "rate limit",
                 "too many requests", "429", "exceeded your current quota"}

\* for each message, the phrases that str(error).lower() contains
PhraseTable ==
    [m \in DOMAIN Spell |-> {ph \in KnownPhrases : Contains(lower(Spell[m]), Spell[ph])}]

\* str(error).lower() reduced to the phrases of the classifiers it contains
PhrasesIn(msg) == PhraseTable[msg]

Exc(type, msg) == [type |-> type, msg |-> msg]

BackendErrors == {Exc("Exception", m) : m \in BackendMessages}

\* ValueError("No LLM providers available")
NoProvidersError == Exc("ValueError", "No LLM providers available")

\* Exception("All models in the tier failed.")
AllModelsFailed == Exc("Exception", "All models in the tier failed.")

\* LLMResponse(text, raw_response)
LLMResponse(text, raw) == [text |-> text, raw_response |-> raw]

\* placeholders for the absent half of an outcome
NoRaw == [provider |-> None, model |-> None, prompt |-> None, media |-> None]
NoResponse == LLMResponse(None, NoRaw)
NoExc == Exc(None, None)

Ok(resp) == [kind |-> "ok", resp |-> resp, exc |-> NoExc]
Err(e) == [kind |-> "err", resp |-> NoResponse, exc |-> e]

\* what a dispatch call hands to its caller
Returned(resp) == [kind |-> "return", resp |-> resp, exc |-> NoExc]
Raised(e) == [kind |-> "raise", resp |-> NoResponse, exc |-> e]
NoResult == [kind |-> "none", resp |-> NoResponse, exc |-> NoExc]
NoArgs == [op |-> None, prompt |-> None, media |-> None, provider |-> None,
           model_tier |-> None, fallback |-> FALSE]

(***************************************************************************)
(* Provider adapters                                                       *)
(***************************************************************************)
\* the phrases each adapter's is_rate_limited looks for
RateLimitPhrases(p) ==
    CASE p = "gemini" -> {"quota exceeded", "resource exhausted", "rate limit",
                          "too many requests", "429", "exceeded your current quota"}
      [] OTHER -> {"rate limit", "too many requests", "429", "quota exceeded"}

is_rate_limited(p, e) == PhrasesIn(e.msg) \cap RateLimitPhrases(p) # {}

\* what the adapter makes of a backend response
Envelope(reply, raw) ==
    IF raw.provider = "gemini"
    THEN \* response.text if the response has one, else str(response)
         IF reply \in {NoChoices, NoContent}
         THEN LLMResponse("<response>", raw)
         ELSE LLMResponse(reply, raw)
    ELSE \* response.choices[0].message.content if there is a choice, else ""
         CASE reply = NoChoices -> LLMResponse("", raw)
           [] reply = NoContent -> LLMResponse(None, raw)
           [] OTHER -> LLMResponse(reply, raw)

\* the model each adapter is constructed with
ConfiguredModel(p) ==
    CASE p = "litellm" -> "litellm-model"
      [] p = "gemini" -> "gemini-2.5-pro-exp-03-25"
      [] OTHER -> "google/gemini-2.5-pro-exp-03-25:free"

\* mutant: every adapter calls the model it was constructed with
BackendModel_Configured(p, m) == ConfiguredModel(p)

\* the model a backend call of adapter p is made with while p.model_name = m:
\* LiteLLM and OpenRouter pass self.model_name with each call, Gemini calls
\* self.model, the GenerativeModel built by setup() from the configured model
BackendModel(p, m) == IF p = "gemini" THEN ConfiguredModel(p) ELSE m

\* the outcomes of adapter p's generate_content(prompt) under model m
generate_content(p, m, prompt) ==
    LET raw == [provider |-> p, model |-> BackendModel(p, m), prompt |-> prompt,
                media |-> None]
    IN  {Ok(Envelope(r, raw)) : r \in BackendReplies} \cup {Err(e) : e \in BackendErrors}

LiteLLMNoMedia ==
    Exc("NotImplementedError", "Media handling not yet implemented for LiteLLM provider.")

OpenRouterNoMedia(mime_type) ==
    Exc("NotImplementedError",
        "Media type " \o mime_type \o " not supported by OpenRouter provider")

\* the outcomes of adapter p's generate_content_with_media(prompt, media_file)
generate_content_with_media(p, m, prompt, media_file) ==
    LET raw == [provider |-> p, model |-> BackendModel(p, m), prompt |-> prompt,
                media |-> media_file]
        backend == {Ok(Envelope(r, raw)) : r \in BackendReplies}
                       \cup {Err(e) : e \in BackendErrors}
    IN  CASE p = "litellm" -> {Err(LiteLLMNoMedia)}
          [] p = "gemini" -> backend
          [] OTHER -> IF IsImage(guess_type(media_file))
                      THEN backend
                      ELSE {Err(OpenRouterNoMedia(guess_type(media_file)))}

\* one entry of the log of adapter calls
AdapterCall(p, method, m, prompt, media_file, outcome) ==
    [provider |-> p, method |-> method, model |-> m, prompt |-> prompt,
     media |-> media_file, outcome |-> outcome]

\* os.getenv(name, default): value is None when the variable is unset
getenv(value, default) == IF value = None THEN default ELSE value

\* the environment LLMService is constructed in: the providers whose API key
\* is set, whether LITELLM_MODEL is set, OPENAI_AVAILABLE, the providers whose
\* setup() raises, DEFAULT_LLM_PROVIDER, HEAVY_MODELS and LIGHT_MODELS
Environment(keys, litellm_model, openai, failing, default, heavy, light) ==
    [keys |-> keys, LITELLM_MODEL |-> litellm_model, OPENAI_AVAILABLE |-> openai,
     failing |-> failing, DEFAULT_LLM_PROVIDER |-> default,
     HEAVY_MODELS |-> heavy, LIGHT_MODELS |-> light]

NoEnvironment == Environment({}, FALSE, FALSE, {}, None, None, None)

\* no construction is in progress
NoStartup == [default_provider |-> None, env |-> NoEnvironment]

\* a Python value handed back by a genai_helper function
Value(type, items) == [type |-> type, items |-> items]
Str(text) == Value("str", <<text>>)
Pair(first, second) == Value("tuple", <<first, second>>)
List(items) == Value("list", items)
NoneValue == Value("NoneType", <<>>)
NoValue == Value(None, <<>>)

\* what a genai_helper function hands to its caller
HReturned(value) == [kind |-> "return", value |-> value, exc |-> NoExc]
HRaised(e) == [kind |-> "raise", value |-> NoValue, exc |-> e]
NoHelperResult == [kind |-> "none", value |-> NoValue, exc |-> NoExc]

\* no genai_helper function is in progress
NoHelper == [fn |-> None, pc |-> "idle", input |-> None, provider |-> None,
             dispatch |-> NoResult, calls |-> <<>>, result |-> NoHelperResult]

(***************************************************************************)
(* Functions examined on their own                                         *)
(***************************************************************************)
\* error messages given to is_rate_limited
ProbeMessages ==
    {"quota exceeded",
     "Quota Exceeded for project",
     "RESOURCE EXHAUSTED",
     "resource exhausted",
     "Rate limit error",
     "rate limit",
     "Too Many Requests",
     "too many requests",
     "HTTP 429",
     "429",
     "429 You exceeded your current quota",
     "exceeded your current quota",
     "invalid request",
     "Invalid Request",
     "API Error",
     "",
     "rate-limit",
     "quota",
     "Resource  exhausted",
     "42 9",
     "timeout"}

\* no function is under examination
NoProbe == [fn |-> None, in |-> None, out |-> None, done |-> FALSE]

(***************************************************************************)
(* The content thread of main.py: values                                   *)
(***************************************************************************)
\* the number of runs of run_content_processor that are followed
MaxCycles == 2

VideoIds == {"v1", "v2"}
ArticleIds == {"a1", "a2"}
EpisodeIds == {"e0", "e1"}
\* db.get_channels(): the rows of the channels table
Channels == <<"channel-1", "channel-2">>

\* the ids of a sequence of videos or feed entries
Range(seq) == {seq[i] : i \in 1..Len(seq)}

\* the content thread before it is started: empty tables, no cycle run
NoPoll == [at |-> "off", cycle |-> 0, job |-> None,
           videos |-> {}, processed_articles |-> {}, processed_episodes |-> {},
           channels |-> <<>>, new_video_ids |-> <<>>, entries |-> <<>>,
           id |-> None, attempt |-> 0,
           handed |-> [v \in VideoIds |-> 0], posted |-> {},
           listed |-> {}, tried |-> {}, failed |-> {}]

\* no generate_slug call
NoSlug == [pc |-> "idle", title |-> <<>>, frames |-> <<>>, dispatches |-> 0,
           text |-> <<>>, exc |-> None, failed_at |-> 0,
           result |-> [kind |-> "none", slug |-> <<>>, count |-> 0]]

\* function fn is about to be applied to input in / has returned out
Asked(fn, in) == [fn |-> fn, in |-> in, out |-> None, done |-> FALSE]
Answered(fn, in, out) == [fn |-> fn, in |-> in, out |-> out, done |-> TRUE]

(***************************************************************************)
(* LLMService construction                                                 *)
(***************************************************************************)
\* the registry after init_providers: the configured adapters in ProviderOrder
Registry(configured) == SelectSeq(ProviderOrder, LAMBDA p : p \in configured)

Keys(reg) == {reg[i] : i \in 1..Len(reg)}

\* mutant: DEFAULT_LLM_PROVIDER is looked at only when the constructor's
\* default is not registered
InitDefault_ArgumentFirst(reg, ctor_default, env_default) ==
    IF ctor_default \in Keys(reg) THEN ctor_default
    ELSE IF env_default # None /\ env_default \in Keys(reg) THEN env_default
    ELSE IF reg # <<>> THEN reg[1] ELSE ctor_default

\* default_provider after init_providers
InitDefault(reg, ctor_default, env_default) ==
    LET d1 == IF env_default # None /\ env_default \in Keys(reg)
              THEN env_default ELSE ctor_default
    IN  IF d1 \notin Keys(reg) /\ reg # <<>> THEN reg[1] ELSE d1

\* a tier list of n model identifiers
ModelList(prefix, n) == [i \in 1..n |-> prefix \o ToString(i)]

Init ==
    /\ \E configured \in SUBSET ProviderNames : providers = Registry(configured)
    /\ \E env_default \in {None, "openrouter"} :
           default_provider = InitDefault(providers, "litellm", env_default)
    /\ \E n \in 1..MaxModels : heavy_models = ModelList("heavy-", n)
    /\ \E n \in 1..MaxModels : light_models = ModelList("light-", n)
    /\ model_name = [p \in Keys(providers) |-> ConfiguredModel(p)]
    /\ pc = "idle"
    /\ args = NoArgs
    /\ provider_name = None
    /\ models = <<>>
    /\ idx = 0
    /\ fallback_provider = None
    /\ calls = <<>>
    /\ result = NoResult
    /\ probe = NoProbe
    /\ requests = <<>>
    /\ startup = NoStartup
    /\ helper = NoHelper
    /\ poll = NoPoll
    /\ slug = NoSlug

(***************************************************************************)
(* LLMService.generate_content                                             *)
(***************************************************************************)
\* provider_name = provider or self.default_provider
RequestedProvider(provider) == IF provider = None THEN default_provider ELSE provider

\* mutant: an unregistered name is replaced by the last registered provider
ResolveProvider_Last(provider) ==
    IF RequestedProvider(provider) \in Keys(providers)
    THEN RequestedProvider(provider)
    ELSE IF providers = <<>> THEN None ELSE providers[Len(providers)]

\* mutant: the registry is not looked at
ResolveProvider_Unchecked(provider) == RequestedProvider(provider)

\* the provider a dispatch call resolves to; None when the registry is empty
ResolveProvider(provider) ==
    IF RequestedProvider(provider) \in Keys(providers)
    THEN RequestedProvider(provider)
    ELSE IF providers = <<>> THEN None ELSE providers[1]

\* mutant: the candidates are taken last first
SelectModels_Reversed(model_tier) ==
    LET list == IF model_tier = "heavy" THEN heavy_models ELSE light_models
    IN  [i \in 1..Len(list) |-> list[Len(list) + 1 - i]]

\* mutant: the tiers are taken for each other
SelectModels_Swapped(model_tier) ==
    IF model_tier = "heavy" THEN light_models ELSE heavy_models

\* models = self.heavy_models if model_tier == "heavy" else self.light_models
SelectModels(model_tier) == IF model_tier = "heavy" THEN heavy_models ELSE light_models

\* mutant: a rate-limited candidate ends the loop, any other error continues it
ContinueWithNextModel_Inverted(fallback, p, e) == fallback /\ ~is_rate_limited(p, e)

\* mutant: no candidate is ever skipped
ContinueWithNextModel_Never(fallback, p, e) == FALSE

\* mutant: the error is not classified
ContinueWithNextModel_AnyError(fallback, p, e) == fallback

\* mutant: the fallback flag is ignored
ContinueWithNextModel_NoFlag(fallback, p, e) == is_rate_limited(p, e)

\* the except branch of the loop: try the next model, or re-raise
ContinueWithNextModel(fallback, p, e) == fallback /\ is_rate_limited(p, e)


\* mutant: after a failed attempt the other registered provider is used
AttemptProvider_Cross(i) ==
    IF i > 1 /\ Keys(providers) # {provider_name}
    THEN CHOOSE p \in Keys(providers) : p # provider_name
    ELSE provider_name

\* self.providers[provider_name]: the adapter of the i-th attempt
AttemptProvider(i) == provider_name

CallGenerateContent(prompt, provider, model_tier, fallback) ==
    /\ pc = "idle"
    /\ args' = [op |-> "generate_content", prompt |-> prompt, media |-> None,
                provider |-> provider, model_tier |-> model_tier, fallback |-> fallback]
    /\ provider_name' = ResolveProvider(provider)
    /\ models' = SelectModels(model_tier)
    /\ calls' = <<>>
    /\ IF ResolveProvider(provider) = None
       THEN /\ pc' = "raised"
            /\ result' = Raised(NoProvidersError)
            /\ idx' = 0
       ELSE IF SelectModels(model_tier) = <<>>
       THEN /\ pc' = "raised"
            /\ result' = Raised(AllModelsFailed)
            /\ idx' = 0
       ELSE /\ pc' = "text"
            /\ result' = NoResult
            /\ idx' = 1
    /\ UNCHANGED <<elsewhere, config, model_name, fallback_provider>>

\* one iteration of "for model in models", and the raise after the last one
TextAttempt ==
    /\ pc = "text"
    /\ LET model == models[idx]
           p == AttemptProvider(idx)
       IN
       /\ model_name' = [model_name EXCEPT ![p] = model]
       /\ \E outcome \in generate_content(p, model, args.prompt) :
            /\ calls' = Append(calls, AdapterCall(p, "generate_content",
                                                  model, args.prompt, None, outcome))
            /\ IF outcome.kind = "ok"
               THEN /\ pc' = "returned"
                    /\ result' = Returned(outcome.resp)
                    /\ idx' = idx
               ELSE IF ContinueWithNextModel(args.fallback, p, outcome.exc)
               THEN IF idx < Len(models)
                    THEN /\ pc' = "text"
                         /\ result' = NoResult
                         /\ idx' = idx + 1
                    ELSE /\ pc' = "raised"
                         /\ result' = Raised(AllModelsFailed)
                         /\ idx' = idx
               ELSE /\ pc' = "raised"
                    /\ result' = Raised(outcome.exc)
                    /\ idx' = idx
    /\ UNCHANGED <<elsewhere, config, args, provider_name, models, fallback_provider>>

(***************************************************************************)
(* LLMService.generate_content_with_media                                  *)
(***************************************************************************)
\* mutant: the last registered provider other than current_provider
_get_fallback_provider_Last(current_provider) ==
    LET available == SelectSeq(providers, LAMBDA p : p # current_provider)
    IN  IF available = <<>> THEN None ELSE available[Len(available)]

\* mutant: the failed provider is not excluded
_get_fallback_provider_Any(current_provider) ==
    IF providers = <<>> THEN None ELSE providers[1]

\* the first registered provider other than current_provider, or None
_get_fallback_provider(current_provider) ==
    LET available == SelectSeq(providers, LAMBDA p : p # current_provider)
    IN  IF available = <<>> THEN None ELSE available[1]

\* mutant: the fallback flag is ignored
FallBackToOtherProvider_NoFlag(fallback, p, e) == is_rate_limited(p, e)

\* "if fallback and is_rate_limit": leave the primary provider for another one
FallBackToOtherProvider(fallback, p, e) == fallback /\ is_rate_limited(p, e)

\* mutant: every error of the fallback's media call leads to the text-only call
RetryTextOnly_AnyError(e) == TRUE

\* "except NotImplementedError": the fallback provider cannot take the media
RetryTextOnly(e) == e.type = "NotImplementedError"

\* mutant: the prompt is passed on as it is
TextOnlyPrompt_Same(prompt) == prompt

\* the prompt of the text-only retry
TextOnlyPrompt(prompt) == "[Media described in prompt] " \o prompt

CallGenerateContentWithMedia(prompt, media_file, provider, fallback) ==
    /\ pc = "idle"
    /\ args' = [op |-> "generate_content_with_media", prompt |-> prompt,
                media |-> media_file, provider |-> provider, model_tier |-> None,
                fallback |-> fallback]
    /\ provider_name' = ResolveProvider(provider)
    /\ calls' = <<>>
    /\ IF ResolveProvider(provider) = None
       THEN /\ pc' = "raised"
            /\ result' = Raised(NoProvidersError)
       ELSE /\ pc' = "media"
            /\ result' = NoResult
    /\ UNCHANGED <<elsewhere, config, model_name, models, idx, fallback_provider>>

\* the call on the resolved provider and the handling of its failure
MediaPrimary ==
    /\ pc = "media"
    /\ \E outcome \in generate_content_with_media(provider_name, model_name[provider_name],
                                                   args.prompt, args.media) :
         /\ calls' = Append(calls, AdapterCall(provider_name, "generate_content_with_media",
                                               model_name[provider_name], args.prompt,
                                               args.media, outcome))
         /\ IF outcome.kind = "ok"
            THEN /\ pc' = "returned"
                 /\ result' = Returned(outcome.resp)
                 /\ fallback_provider' = fallback_provider
            ELSE IF /\ FallBackToOtherProvider(args.fallback, provider_name, outcome.exc)
                    /\ _get_fallback_provider(provider_name) # None
            THEN /\ pc' = "media_fallback"
                 /\ result' = NoResult
                 /\ fallback_provider' = _get_fallback_provider(provider_name)
            ELSE /\ pc' = "raised"
                 /\ result' = Raised(outcome.exc)
                 /\ fallback_provider' = fallback_provider
    /\ UNCHANGED <<elsewhere, config, model_name, args, provider_name, models, idx>>

\* the media call on the fallback provider
MediaFallback ==
    /\ pc = "media_fallback"
    /\ \E outcome \in generate_content_with_media(fallback_provider,
                                                   model_name[fallback_provider],
                                                   args.prompt, args.media) :
         /\ calls' = Append(calls, AdapterCall(fallback_provider,
                                               "generate_content_with_media",
                                               model_name[fallback_provider],
                                               args.prompt, args.media, outcome))
         /\ IF outcome.kind = "ok"
            THEN /\ pc' = "returned"
                 /\ result' = Returned(outcome.resp)
            ELSE IF RetryTextOnly(outcome.exc)
            THEN /\ pc' = "media_textonly"
                 /\ result' = NoResult
            ELSE /\ pc' = "raised"
                 /\ result' = Raised(outcome.exc)
    /\ UNCHANGED <<elsewhere, config, model_name, args, provider_name, models, idx,
                   fallback_provider>>

\* the text-only call on the fallback provider
MediaTextOnly ==
    /\ pc = "media_textonly"
    /\ \E outcome \in generate_content(fallback_provider, model_name[fallback_provider],
                                        TextOnlyPrompt(args.prompt)) :
         /\ calls' = Append(calls, AdapterCall(fallback_provider, "generate_content",
                                               model_name[fallback_provider],
                                               TextOnlyPrompt(args.prompt), None, outcome))
         /\ IF outcome.kind = "ok"
            THEN /\ pc' = "returned"
                 /\ result' = Returned(outcome.resp)
            ELSE /\ pc' = "raised"
                 /\ result' = Raised(outcome.exc)
    /\ UNCHANGED <<elsewhere, config, model_name, args, provider_name, models, idx,
                   fallback_provider>>

\* the caller takes the result; the service is ready for the next call
Finish ==
    /\ pc \in {"returned", "raised"}
    /\ pc' = "idle"
    /\ args' = NoArgs
    /\ provider_name' = None
    /\ models' = <<>>
    /\ idx' = 0
    /\ fallback_provider' = None
    /\ calls' = <<>>
    /\ result' = NoResult
    /\ UNCHANGED <<elsewhere, config, model_name>>

Next ==
    \/ \E prompt \in Prompts, provider \in ProviderArgs, model_tier \in Tiers,
          fallback \in BOOLEAN :
            CallGenerateContent(prompt, provider, model_tier, fallback)
    \/ TextAttempt
    \/ \E prompt \in Prompts, media_file \in MediaFiles, provider \in ProviderArgs,
          fallback \in BOOLEAN :
            CallGenerateContentWithMedia(prompt, media_file, provider, fallback)
    \/ MediaPrimary
    \/ MediaFallback
    \/ MediaTextOnly
    \/ Finish

Spec == Init /\ [][Next]_vars

(***************************************************************************)
(* is_rate_limited on its own                                              *)
(***************************************************************************)
\* no service is constructed and no dispatch call is in flight
NoService ==
    /\ providers = <<>>
    /\ default_provider = None
    /\ heavy_models = <<>>
    /\ light_models = <<>>
    /\ model_name = <<>>

NoCall ==
    /\ pc = "idle"
    /\ args = NoArgs
    /\ provider_name = None
    /\ models = <<>>
    /\ idx = 0
    /\ fallback_provider = None
    /\ calls = <<>>
    /\ result = NoResult

call == <<pc, args, provider_name, models, idx, fallback_provider, calls, result>>
service == <<config, model_name>>

InitClassify ==
    /\ NoService
    /\ NoCall
    /\ requests = <<>>
    /\ startup = NoStartup
    /\ helper = NoHelper
    /\ poll = NoPoll
    /\ slug = NoSlug
    /\ \E p \in ProviderNames, m \in ProbeMessages :
           probe = Asked("is_rate_limited", [provider |-> p, msg |-> m])

\* provider.is_rate_limited(Exception(msg))
ApplyIsRateLimited ==
    /\ probe.fn = "is_rate_limited"
    /\ ~probe.done
    /\ probe' = Answered(probe.fn, probe.in,
                         is_rate_limited(probe.in.provider, Exc("Exception", probe.in.msg)))
    /\ UNCHANGED <<service, call, requests, startup, helper, poll, slug>>

SpecClassify == InitClassify /\ [][ApplyIsRateLimited]_vars

(***************************************************************************)
(* LLMService.generate_content called from several threads                 *)
(***************************************************************************)
\* the arguments and the local variables of one thread's call
Request(prompt, provider, model_tier, fallback) ==
    [pc |-> "start", prompt |-> prompt, provider |-> provider,
     model_tier |-> model_tier, fallback |-> fallback, provider_name |-> None,
     models |-> <<>>, idx |-> 0, calls |-> <<>>, result |-> NoResult]

\* the service with every provider registered and two candidates in each tier
\* (as in test_model_tiers.py), and up to MaxRequests threads about to call
\* generate_content(prompt, provider, model_tier) on one provider
InitConcurrent ==
    /\ providers = Registry(ProviderNames)
    /\ default_provider = InitDefault(providers, "litellm", None)
    /\ heavy_models = ModelList("heavy-", 2)
    /\ light_models = ModelList("light-", 2)
    /\ model_name = [p \in Keys(providers) |-> ConfiguredModel(p)]
    /\ NoCall
    /\ probe = NoProbe
    /\ startup = NoStartup
    /\ helper = NoHelper
    /\ poll = NoPoll
    /\ slug = NoSlug
    /\ \E n \in 1..MaxRequests, p \in ProviderNames :
         \E tiers \in [1..n -> {"heavy", "light"}] :
           requests = [r \in 1..n |->
                          Request("Request " \o ToString(r), p, tiers[r], TRUE)]

\* mutant: the prompt is kept where the first thread put it
PromptOf_Shared(r) == requests[1].prompt

\* the prompt argument of thread r's call
PromptOf(r) == requests[r].prompt

\* lines 404-416: resolve the provider and select the tier's list
Enter(r) ==
    /\ requests[r].pc = "start"
    /\ LET q == requests[r]
           p == ResolveProvider(q.provider)
       IN  requests' = [requests EXCEPT ![r] =
               IF p = None
               THEN [q EXCEPT !.pc = "raised", !.result = Raised(NoProvidersError)]
               ELSE [q EXCEPT !.pc = "select", !.provider_name = p,
                              !.models = SelectModels(q.model_tier), !.idx = 1]]
    /\ UNCHANGED <<service, call, probe, startup, helper, poll, slug>>

\* line 418: provider_instance.model_name = model
SetModelName(r) ==
    /\ requests[r].pc = "select"
    /\ LET q == requests[r] IN
       /\ model_name' = [model_name EXCEPT ![q.provider_name] = q.models[q.idx]]
       /\ requests' = [requests EXCEPT ![r].pc = "call"]
    /\ UNCHANGED <<config, call, probe, startup, helper, poll, slug>>

\* lines 419-426: the adapter call, which reads self.model_name, and the
\* handling of its outcome
CallAdapter(r) ==
    /\ requests[r].pc = "call"
    /\ LET q == requests[r]
           p == q.provider_name
       IN
       \E outcome \in generate_content(p, model_name[p], PromptOf(r)) :
         LET logged == Append(q.calls, AdapterCall(p, "generate_content", q.models[q.idx],
                                                    PromptOf(r), None, outcome))
         IN  requests' = [requests EXCEPT ![r] =
               IF outcome.kind = "ok"
               THEN [q EXCEPT !.pc = "returned", !.calls = logged,
                              !.result = Returned(outcome.resp)]
               ELSE IF ContinueWithNextModel(q.fallback, p, outcome.exc)
               THEN IF q.idx < Len(q.models)
                    THEN [q EXCEPT !.pc = "select", !.calls = logged, !.idx = q.idx + 1]
                    ELSE [q EXCEPT !.pc = "raised", !.calls = logged,
                                   !.result = Raised(AllModelsFailed)]
               ELSE [q EXCEPT !.pc = "raised", !.calls = logged,
                              !.result = Raised(outcome.exc)]]
    /\ UNCHANGED <<service, call, probe, startup, helper, poll, slug>>

NextConcurrent ==
    \/ \E r \in DOMAIN requests : Enter(r)
    \/ \E r \in DOMAIN requests : SetModelName(r)
    \/ \E r \in DOMAIN requests : CallAdapter(r)

SpecConcurrent == InitConcurrent /\ [][NextConcurrent]_vars

\* the threads are run: while some thread can take a step, one is taken
FairSpecConcurrent == SpecConcurrent /\ WF_vars(NextConcurrent)

(***************************************************************************)
(* The construction of llm_service: LLMService.__init__ and init_providers *)
(***************************************************************************)
\* the environments looked at: every combination of API keys, LITELLM_MODEL,
\* OPENAI_AVAILABLE, failing setups and DEFAULT_LLM_PROVIDER under one tier
\* configuration, and the tier configurations with every provider registered
HeavyConfigs == {None, "", "h1,h2", "h1,,h2,"}
LightConfigs == {None, "l1", ",l1,l2"}

StartupEnvs ==
    {Environment(keys, litellm_model, openai, failing, default, "h1,h2", "l1") :
        keys \in SUBSET ProviderNames, litellm_model \in BOOLEAN, openai \in BOOLEAN,
        failing \in SUBSET ProviderNames, default \in {None, "gemini", "gamma"}}
    \cup
    {Environment(ProviderNames, TRUE, TRUE, {}, None, heavy, light) :
        heavy \in HeavyConfigs, light \in LightConfigs}

\* llm_provider is being imported: no service yet, no dispatch call possible
InitStartup ==
    /\ NoService
    /\ pc = "import"
    /\ args = NoArgs
    /\ provider_name = None
    /\ models = <<>>
    /\ idx = 0
    /\ fallback_provider = None
    /\ calls = <<>>
    /\ result = NoResult
    /\ probe = NoProbe
    /\ requests = <<>>
    /\ helper = NoHelper
    /\ poll = NoPoll
    /\ slug = NoSlug
    /\ \E default_provider_arg \in {"litellm", "openrouter"}, env \in StartupEnvs :
           startup = [default_provider |-> default_provider_arg, env |-> env]

\* mutant: a provider whose setup() raises is registered all the same
Registers_Unguarded(env, p) ==
    CASE p = "litellm" -> p \in env.keys /\ env.LITELLM_MODEL
      [] p = "gemini" -> p \in env.keys
      [] OTHER -> p \in env.keys /\ env.OPENAI_AVAILABLE

\* init_providers puts provider p into self.providers
Registers(env, p) ==
    CASE p = "litellm" -> p \in env.keys /\ env.LITELLM_MODEL /\ p \notin env.failing
      [] p = "gemini" -> p \in env.keys /\ p \notin env.failing
      [] OTHER -> p \in env.keys /\ env.OPENAI_AVAILABLE /\ p \notin env.failing

\* LLMService(default_provider): __init__ with init_providers
Construct ==
    /\ pc = "import"
    /\ LET env == startup.env
           reg == Registry({p \in ProviderNames : Registers(env, p)})
       IN  /\ providers' = reg
           /\ default_provider' = InitDefault(reg, startup.default_provider,
                                              env.DEFAULT_LLM_PROVIDER)
           /\ heavy_models' = split(getenv(env.HEAVY_MODELS, ""), ",")
           /\ light_models' = split(getenv(env.LIGHT_MODELS, ""), ",")
           /\ model_name' = [p \in Keys(reg) |-> ConfiguredModel(p)]
    /\ pc' = "constructed"
    /\ UNCHANGED <<args, provider_name, models, idx, fallback_provider, calls, result,
                   probe, requests, startup, helper, poll, slug>>

\* llm_service = LLMService() is bound; the callers can use the service
Loaded ==
    /\ pc = "constructed"
    /\ pc' = "idle"
    /\ startup' = NoStartup
    /\ UNCHANGED <<service, args, provider_name, models, idx, fallback_provider, calls,
                   result, probe, requests, helper, poll, slug>>

NextStartup == Construct \/ Loaded \/ Next

SpecStartup == InitStartup /\ [][NextStartup]_vars

(***************************************************************************)
(* The content-generation functions of genai_helper.py                     *)
(***************************************************************************)
TextHelpers == {"summarize_youtube_video", "summarize_text", "generate_article",
                "summarize_article", "humanize_content", "find_relevant_tags_with_llm"}
MediaHelpers == {"summarize_mp3", "article_mp3"}
HelperFunctions == TextHelpers \cup MediaHelpers

\* what a helper is given: a file for the media helpers, a text for the others
HelperInputs(fn) == IF fn \in MediaHelpers THEN {"talk.mp3"} ELSE {"draft"}

\* the LLMService method a helper calls
HelperOperation(fn) ==
    IF fn \in MediaHelpers THEN "generate_content_with_media" ELSE "generate_content"

\* the model_tier keyword a helper passes
HelperTier(fn) == IF fn = "find_relevant_tags_with_llm" THEN "light" ELSE "heavy"

\* the prompt a helper builds around its input
HelperPrompt(fn, input) == fn \o ": " \o input

\* the keyword arguments of a helper's call: model_tier, and **kwargs
KeywordsPassed(fn, provider) ==
    {"model_tier"} \cup (IF provider = None THEN {} ELSE {"provider"})

\* the parameters of the LLMService methods
Parameters(op) ==
    IF op = "generate_content"
    THEN {"prompt", "provider", "model_tier", "fallback"}
    ELSE {"prompt", "media_file", "provider", "fallback"}

\* TypeError of a call with a keyword the method does not have
UnexpectedKeyword(op, keyword) ==
    Exc("TypeError", op \o "() got an unexpected keyword argument '" \o keyword \o "'")

\* response.text.split('\n'): the first line, and the other lines joined again
TitleAndContent(text) ==
    LET response_lines == split(text, "\n")
    IN  Pair(response_lines[1], join("\n", Tail(response_lines)))

\* format_html_content of a text of one paragraph without URLs
format_html_content(text) == Word(StripChars(CollapseChars(Spell[text])))

\* str.strip()
strip(text) == Word(StripChars(Spell[text]))

\* AttributeError of a str method called on None
NoneHasNo(method) ==
    Exc("AttributeError", "'NoneType' object has no attribute '" \o method \o "'")

\* the str method a helper calls on response.text, None if it calls none
TextMethod(fn) ==
    CASE fn \in {"summarize_text", "summarize_article", "article_mp3"} -> "split"
      [] fn \in {"humanize_content", "find_relevant_tags_with_llm"} -> "strip"
      [] OTHER -> None

\* what the try block of helper fn returns for the response resp
OnSuccess(fn, resp, input) ==
    CASE fn \in {"summarize_youtube_video", "generate_article"} ->
             IF resp.text = None THEN NoneValue ELSE Str(resp.text)
      [] fn \in {"summarize_text", "summarize_article", "article_mp3"} ->
             TitleAndContent(resp.text)
      [] fn = "summarize_mp3" -> Value("LLMResponse", <<resp.text>>)
      [] fn = "humanize_content" -> Str(format_html_content(strip(resp.text)))
      [] OTHER -> List(<<>>)

\* mutant: every helper re-raises
OnFailure_Reraise(fn, e, input) == HRaised(e)

\* the except block of helper fn
OnFailure(fn, e, input) ==
    CASE fn = "summarize_youtube_video" -> HReturned(NoneValue)
      [] fn = "humanize_content" -> HReturned(Str(input))
      [] fn = "find_relevant_tags_with_llm" -> HReturned(List(<<>>))
      [] OTHER -> HRaised(e)

\* a genai_helper function is called
CallHelper(fn, input, provider) ==
    /\ helper.pc = "idle"
    /\ pc = "idle"
    /\ helper' = [NoHelper EXCEPT !.fn = fn, !.pc = "dispatch", !.input = input,
                                  !.provider = provider]
    /\ UNCHANGED <<service, call, probe, requests, startup, poll, slug>>

\* the helper's call of llm_service is accepted and the dispatch begins
HelperCallAccepted ==
    /\ helper.pc = "dispatch"
    /\ KeywordsPassed(helper.fn, helper.provider) \subseteq Parameters(HelperOperation(helper.fn))
    /\ IF HelperOperation(helper.fn) = "generate_content"
       THEN CallGenerateContent(HelperPrompt(helper.fn, helper.input), helper.provider,
                                HelperTier(helper.fn), TRUE)
       ELSE CallGenerateContentWithMedia(HelperPrompt(helper.fn, helper.input),
                                         helper.input, helper.provider, TRUE)

\* the helper's call of llm_service names a keyword the method does not have:
\* TypeError, raised before the method's body
HelperCallRejected ==
    /\ helper.pc = "dispatch"
    /\ pc = "idle"
    /\ \E keyword \in KeywordsPassed(helper.fn, helper.provider)
                        \ Parameters(HelperOperation(helper.fn)) :
         result' = Raised(UnexpectedKeyword(HelperOperation(helper.fn), keyword))
    /\ pc' = "raised"
    /\ args' = [op |-> HelperOperation(helper.fn),
                prompt |-> HelperPrompt(helper.fn, helper.input),
                media |-> IF helper.fn \in MediaHelpers THEN helper.input ELSE None,
                provider |-> helper.provider, model_tier |-> HelperTier(helper.fn),
                fallback |-> TRUE]
    /\ calls' = <<>>
    /\ UNCHANGED <<elsewhere, config, model_name, provider_name, models, idx,
                   fallback_provider>>

\* the call of llm_service has ended: the rest of the try block, or the except
\* block
HelperReturn ==
    /\ helper.pc = "dispatch"
    /\ pc \in {"returned", "raised"}
    /\ helper' = [helper EXCEPT
                    !.pc = "done",
                    !.dispatch = result,
                    !.calls = calls,
                    !.result = IF result.kind = "raise"
                               THEN OnFailure(helper.fn, result.exc, helper.input)
                               ELSE IF result.resp.text = None /\ TextMethod(helper.fn) # None
                               THEN OnFailure(helper.fn, NoneHasNo(TextMethod(helper.fn)),
                                              helper.input)
                               ELSE HReturned(OnSuccess(helper.fn, result.resp, helper.input))]
    /\ pc' = "idle"
    /\ args' = NoArgs
    /\ provider_name' = None
    /\ models' = <<>>
    /\ idx' = 0
    /\ fallback_provider' = None
    /\ calls' = <<>>
    /\ result' = NoResult
    /\ UNCHANGED <<service, probe, requests, startup, poll, slug>>

\* the caller takes what the helper handed back
HelperDone ==
    /\ helper.pc = "done"
    /\ helper' = NoHelper
    /\ UNCHANGED <<service, call, probe, requests, startup, poll, slug>>

\* the steps of generate_content_with_media are left out: no helper enters it
NextHelpers ==
    \/ \E fn \in HelperFunctions, provider \in {None, "openrouter"} :
         \E input \in HelperInputs(fn) : CallHelper(fn, input, provider)
    \/ HelperCallAccepted
    \/ HelperCallRejected
    \/ TextAttempt
    \/ HelperReturn
    \/ HelperDone

SpecHelpers == Init /\ [][NextHelpers]_vars

(***************************************************************************)
(* Properties of the dispatch calls                                        *)
(***************************************************************************)
IsText == args.op = "generate_content"
IsMedia == args.op = "generate_content_with_media"
Finished == pc \in {"returned", "raised"}

\* the i-th adapter call failed
Failed(i) == calls[i].outcome.kind = "err"
Succeeded(i) == calls[i].outcome.kind = "ok"

\* the i-th adapter call failed with an error that the called adapter's
\* is_rate_limited takes for a rate limit
RateLimited(i) == Failed(i) /\ is_rate_limited(calls[i].provider, calls[i].outcome.exc)

\* the i-th adapter call was generate_content on the resolved provider
TextCall(i) == calls[i].provider = provider_name /\ calls[i].method = "generate_content"

\* C1: in a generate_content call with fallback enabled on a registered
\* adapter, while the first k
\* adapter calls have all failed with rate-limited errors and candidates are
\* left, the next candidate is called; when call k+1 succeeds, the dispatch call
\* returns the response of that call and the adapter was called k+1 times.
C1_FallbackWithinTier ==
    (IsText /\ args.fallback /\ provider_name \in Keys(providers)) =>
        \A k \in 0..Len(calls) :
            (\A i \in 1..k : TextCall(i) /\ RateLimited(i)) =>
                /\ (k = Len(calls) /\ k < Len(models)) => (pc = "text" /\ idx = k + 1)
                /\ (k < Len(calls) /\ Succeeded(k + 1)) =>
                       /\ TextCall(k + 1)
                       /\ k + 1 <= Len(models)
                       /\ Len(calls) = k + 1
                       /\ pc = "returned"
                       /\ result = Returned(calls[k + 1].outcome.resp)

C1_Witness ==
    /\ IsText /\ args.fallback /\ pc = "returned"
    /\ Len(calls) = 2 /\ RateLimited(1) /\ Succeeded(2)
    /\ result = Returned(calls[2].outcome.resp)

C3_OtherErrorPropagates ==
    IsText =>
        \A i \in 1..Len(calls) :
            (Failed(i) /\ ~RateLimited(i)) =>
                /\ i = Len(calls)
                /\ pc = "raised"
                /\ result = Raised(calls[i].outcome.exc)

C3_Witness ==
    /\ IsText /\ args.fallback /\ pc = "raised"
    /\ Len(calls) = 2 /\ RateLimited(1)
    /\ Failed(2) /\ ~RateLimited(2)
    /\ result = Raised(calls[2].outcome.exc)

\* C4: a generate_content call with fallback = False on a non-empty registry
\* makes one adapter call, with the first candidate of the tier; when that call
\* fails, also with a rate-limited error, the dispatch call raises the backend's
\* error.
C4_FallbackDisabled ==
    (IsText /\ ~args.fallback /\ providers # <<>>) =>
        /\ Len(calls) <= 1
        /\ Len(calls) = 0 <=> pc = "text"
        /\ Len(calls) = 1 =>
               /\ TextCall(1)
               /\ calls[1].model = models[1]
               /\ Finished
               /\ Failed(1) => result = Raised(calls[1].outcome.exc)
               /\ Succeeded(1) => result = Returned(calls[1].outcome.resp)

C4_Witness ==
    /\ IsText /\ ~args.fallback /\ pc = "raised"
    /\ Len(models) = 2 /\ Len(calls) = 1 /\ RateLimited(1)
    /\ result = Raised(calls[1].outcome.exc)

\* the i-th adapter call was generate_content_with_media with the caller's
\* prompt and media path
MediaCall(i) ==
    /\ calls[i].method = "generate_content_with_media"
    /\ calls[i].prompt = args.prompt
    /\ calls[i].media = args.media

\* a provider other than the resolved one is registered
OtherProviderRegistered == Keys(providers) \ {provider_name} # {}

\* C5: in a generate_content_with_media call with fallback enabled, when the
\* call on the primary provider fails with a rate-limited error and another
\* provider is registered, the second adapter call is generate_content_with_media
\* of another registered provider with the same prompt and media path; when that
\* call raises NotImplementedError, the third and last adapter call is
\* generate_content of that provider with the prompt behind the marker
\* "[Media described in prompt] ", and the caller gets the outcome of that call.
C5_MediaFallbackChain ==
    (IsMedia /\ args.fallback /\ Len(calls) >= 1 /\ calls[1].provider = provider_name
        /\ MediaCall(1) /\ RateLimited(1) /\ OtherProviderRegistered) =>
        /\ Len(calls) = 1 => pc = "media_fallback"
        /\ Len(calls) >= 2 =>
               /\ calls[2].provider \in Keys(providers) \ {provider_name}
               /\ MediaCall(2)
               /\ (Failed(2) /\ calls[2].outcome.exc.type = "NotImplementedError") =>
                      /\ Len(calls) = 2 => pc = "media_textonly"
                      /\ Len(calls) >= 3 =>
                             /\ Len(calls) = 3
                             /\ calls[3].provider = calls[2].provider
                             /\ calls[3].method = "generate_content"
                             /\ calls[3].prompt = "[Media described in prompt] " \o args.prompt
                             /\ calls[3].prompt # args.prompt
                             /\ Finished
                             /\ Succeeded(3) => result = Returned(calls[3].outcome.resp)
                             /\ Failed(3) => result = Raised(calls[3].outcome.exc)

C5_Witness ==
    /\ IsMedia /\ args.fallback /\ pc = "returned"
    /\ Len(calls) = 3 /\ RateLimited(1)
    /\ calls[2].outcome.exc.type = "NotImplementedError"
    /\ result = Returned(calls[3].outcome.resp)

\* C6: in a generate_content_with_media call, when the call on the primary
\* provider fails and fallback is disabled or the error is not rate-limited, that
\* call is the only adapter call and the dispatch call raises its error.
C6_MediaNoFallback ==
    (IsMedia /\ Len(calls) >= 1 /\ Failed(1) /\ (~args.fallback \/ ~RateLimited(1))) =>
        /\ Len(calls) = 1
        /\ calls[1].provider = provider_name
        /\ pc = "raised"
        /\ result = Raised(calls[1].outcome.exc)

C6_Witness ==
    /\ IsMedia /\ ~args.fallback /\ pc = "raised"
    /\ Len(calls) = 1 /\ RateLimited(1) /\ OtherProviderRegistered
    /\ result = Raised(calls[1].outcome.exc)

\* the primary provider, alone in the registry, was rate-limited in a
\* generate_content_with_media call with fallback enabled
AlonePrimaryRateLimited ==
    /\ IsMedia /\ args.fallback /\ Len(calls) >= 1
    /\ calls[1].provider = provider_name /\ RateLimited(1)
    /\ ~OtherProviderRegistered

C8_EmptyRegistry ==
    /\ [](providers = <<>> =>
             /\ calls = <<>>
             /\ pc \in {"idle", "raised"}
             /\ pc = "raised" => result = Raised(NoProvidersError))
    /\ [][providers = <<>> => UNCHANGED <<config, model_name>>]_vars

C8_Witness ==
    /\ providers = <<>> /\ pc = "raised" /\ IsMedia
    /\ args.provider = "gemini" /\ ~args.fallback
    /\ result = Raised(NoProvidersError)

\* the call in flight names (or defaults to) a provider that is not registered,
\* while some provider is
UnregisteredRequested ==
    /\ pc # "idle"
    /\ providers # <<>>
    /\ RequestedProvider(args.provider) \notin Keys(providers)

\* C9: a dispatch call, text or media, for a provider that is not registered,
\* while the registry is not empty, does not raise the error of the empty
\* registry: it goes on with the first registered provider, and the adapter calls
\* of the primary path (all of generate_content, the first of
\* generate_content_with_media) are made on that provider.
C9_SubstituteFirstRegistered ==
    UnregisteredRequested =>
        /\ provider_name = providers[1]
        /\ result # Raised(NoProvidersError)
        /\ Len(calls) = 0 => pc \in {"text", "media"}
        /\ IsText => \A i \in 1..Len(calls) : calls[i].provider = providers[1]
        /\ (IsMedia /\ Len(calls) >= 1) => calls[1].provider = providers[1]

C9_Witness ==
    /\ UnregisteredRequested /\ args.provider = "gamma" /\ Len(providers) >= 2
    /\ pc = "returned" /\ calls[1].provider = providers[1]

TierExhaustedWithOtherProvider ==
    /\ IsText /\ args.fallback /\ provider_name \in Keys(providers)
    /\ Len(calls) = Len(models)
    /\ \A i \in 1..Len(calls) : TextCall(i) /\ RateLimited(i)
    /\ OtherProviderRegistered

\* C11 as claimed: when every attempt of a generate_content call with fallback
\* enabled is rate-limited on the requested provider and another provider is
\* registered, the call returns a response of that other provider instead of
\* raising.
C11_Claimed_TextCrossProviderFallback ==
    TierExhaustedWithOtherProvider =>
        /\ pc = "returned"
        /\ result.resp.raw_response.provider \in Keys(providers) \ {provider_name}

\* the phrases of the specification that a message contains when the case of
\* its letters is ignored, message by message
Mentions(msg) ==
    CASE msg \in {"quota exceeded", "Quota Exceeded for project"} -> {"quota exceeded"}
      [] msg \in {"RESOURCE EXHAUSTED", "resource exhausted"} -> {"resource exhausted"}
      [] msg \in {"Rate limit error", "rate limit"} -> {"rate limit"}
      [] msg \in {"Too Many Requests", "too many requests"} -> {"too many requests"}
      [] msg \in {"HTTP 429", "429", "429 You exceeded your current quota"} -> {"429"}
      [] OTHER -> {}

\* is_rate_limited has answered for provider p and message m
Classified(p, m) ==
    /\ probe.fn = "is_rate_limited" /\ probe.done
    /\ probe.in.provider = p /\ probe.in.msg = m

RequestedTierList == IF args.model_tier = "heavy" THEN heavy_models ELSE light_models

\* C13: when a generate_content call has returned a response, model_name of
\* the resolved adapter is the candidate of the attempt that succeeded, the last
\* one, and that candidate is an element of the list of the requested tier.
C13_ActiveModelIsSuccessfulCandidate ==
    (IsText /\ pc = "returned") =>
        LET n == Len(calls) IN
        /\ n >= 1 /\ Succeeded(n) /\ TextCall(n)
        /\ \A i \in 1..(n - 1) : Failed(i)
        /\ model_name[provider_name] = calls[n].model
        /\ n <= Len(RequestedTierList)
        /\ model_name[provider_name] = RequestedTierList[n]

C13_Witness ==
    /\ IsText /\ pc = "returned" /\ args.model_tier = "heavy"
    /\ heavy_models = <<"heavy-1", "heavy-2">>
    /\ Len(calls) = 2 /\ RateLimited(1) /\ Succeeded(2)
    /\ model_name[provider_name] = "heavy-2"

(***************************************************************************)
(* Properties of concurrent generate_content calls                         *)
(***************************************************************************)
Threads == DOMAIN requests

\* the model thread r's successful backend call was made with
ServedModel(r) == requests[r].result.resp.raw_response.model

\* the candidate thread r wrote to model_name before its last adapter call
OwnCandidate(r) == requests[r].calls[Len(requests[r].calls)].model

\* the candidates thread r has written to model_name so far
WrittenBy(r) ==
    LET q == requests[r]
        n == IF q.pc = "select" THEN q.idx - 1 ELSE q.idx
    IN  {q.models[j] : j \in 1..n}

ElementsOf(list) == {list[j] : j \in 1..Len(list)}

\* C14: a thread whose generate_content call returned was served with the
\* model that model_name of its adapter held at its backend call: its own
\* candidate, or a candidate written in between by another thread whose call
\* resolved to the same provider (whatever that thread's tier), and then the
\* call returned that response without an error; an adapter that calls the
\* model it was set up with (Gemini) serves every request with that model.
C14_ModelNameRace ==
    \A r \in Threads :
        requests[r].pc = "returned" =>
            /\ requests[r].result.kind = "return"
            /\ requests[r].calls[Len(requests[r].calls)].outcome.kind = "ok"
            /\ IF requests[r].provider_name = "gemini"
               THEN ServedModel(r) = ConfiguredModel("gemini")
               ELSE \/ ServedModel(r) = OwnCandidate(r)
                    \/ \E o \in Threads \ {r} :
                         /\ requests[o].provider_name = requests[r].provider_name
                         /\ ServedModel(r) \in WrittenBy(o)

\* a heavy request is served with a model of the light list: its write of
\* heavy-1 was overwritten by the light request before its backend call
C14_Witness ==
    \E r \in Threads, o \in Threads :
        /\ requests[r].model_tier = "heavy" /\ requests[o].model_tier = "light"
        /\ requests[r].provider_name = requests[o].provider_name
        /\ requests[r].pc = "returned" /\ requests[r].result.kind = "return"
        /\ Len(requests[r].calls) = 1
        /\ OwnCandidate(r) = "heavy-1"
        /\ ServedModel(r) \in ElementsOf(light_models)
        /\ ServedModel(r) \notin ElementsOf(heavy_models)
        /\ requests[o].pc # "raised"

\* every thread asked for the same tier
SameTier == \A r \in Threads, o \in Threads : requests[r].model_tier = requests[o].model_tier

\* no adapter call has failed
HealthySoFar ==
    \A r \in Threads : \A i \in 1..Len(requests[r].calls) :
        requests[r].calls[i].outcome.kind = "ok"

\* thread r's call has returned the response generated for its own prompt
ReturnedOwn(r) ==
    /\ requests[r].pc = "returned"
    /\ requests[r].result.kind = "return"
    /\ requests[r].result.resp.raw_response.prompt = requests[r].prompt
    /\ requests[r].result.resp = requests[r].calls[1].outcome.resp
    /\ Len(requests[r].calls) = 1

C15_NoneLostNoneMixed ==
    (SameTier /\ HealthySoFar) =>
        \A r \in Threads : requests[r].pc \in {"returned", "raised"} => ReturnedOwn(r)

C15_AllAnswered == SameTier => \A r \in Threads : ReturnedOwn(r)

\* C15: threads calling generate_content on one provider with one tier: as
\* long as no adapter call fails, a call that has ended has returned the
\* response generated for its own prompt, after one adapter call; and when no
\* adapter call ever fails, every thread's call ends that way.
C15_SameTierOwnResponse ==
    /\ []C15_NoneLostNoneMixed
    /\ ([]HealthySoFar => <>C15_AllAnswered)

C15_Witness ==
    /\ Cardinality(Threads) = MaxRequests
    /\ SameTier
    /\ \A r \in Threads : ReturnedOwn(r)
    /\ \E r \in Threads, o \in Threads : requests[r].prompt # requests[o].prompt

(***************************************************************************)
(* Properties of the construction                                          *)
(***************************************************************************)
Constructed == pc = "constructed"

\* C16: when the constructor has run and the registry is not empty,
\* default_provider is DEFAULT_LLM_PROVIDER if that is registered, else the
\* constructor's argument if that is registered, else the first registered
\* provider; from then on default_provider names a registered provider and
\* neither the registry nor default_provider changes.
C16_DefaultProviderRegistered ==
    /\ [](Constructed /\ providers # <<>> =>
            default_provider =
                IF startup.env.DEFAULT_LLM_PROVIDER \in Keys(providers)
                THEN startup.env.DEFAULT_LLM_PROVIDER
                ELSE IF startup.default_provider \in Keys(providers)
                THEN startup.default_provider
                ELSE providers[1])
    /\ [](pc # "import" /\ providers # <<>> => default_provider \in Keys(providers))
    /\ [][pc # "import" => UNCHANGED <<providers, default_provider>>]_vars

\* DEFAULT_LLM_PROVIDER names no provider, the constructor's default is not
\* registered: the first registered provider is the default
C16_Witness ==
    /\ Constructed
    /\ startup.env.DEFAULT_LLM_PROVIDER = "gamma"
    /\ startup.default_provider = "litellm"
    /\ providers = <<"gemini", "openrouter">>
    /\ default_provider = "gemini"

\* setup() of provider p would succeed: OpenRouterProvider.setup raises
\* ImportError without the openai package
SetupSucceeds(env, p) ==
    /\ p \notin env.failing
    /\ p = "openrouter" => env.OPENAI_AVAILABLE

IsCommaSplit(list, value) ==
    /\ Len(list) = 1 + Cardinality({i \in 1..Len(Spell[value]) : Spell[value][i] = ","})
    /\ \A i \in 1..Len(list) : ~Contains(Spell[list[i]], <<",">>)
    /\ JoinChars(list, ",") = Spell[value]

\* C18: after construction heavy_models and light_models are the comma-split
\* of HEAVY_MODELS and LIGHT_MODELS, empty entries kept, and <<"">> when the
\* variable is empty or unset; no tier list is ever empty, and a
\* generate_content call that raised "All models in the tier failed." has made
\* at least one adapter call.
C18_TierListsAreCommaSplit ==
    /\ Constructed =>
        /\ IsCommaSplit(heavy_models, getenv(startup.env.HEAVY_MODELS, ""))
        /\ IsCommaSplit(light_models, getenv(startup.env.LIGHT_MODELS, ""))
        /\ startup.env.HEAVY_MODELS \in {None, ""} => heavy_models = <<"">>
        /\ startup.env.LIGHT_MODELS \in {None, ""} => light_models = <<"">>
    /\ pc # "import" => heavy_models # <<>> /\ light_models # <<>>
    /\ (IsText /\ pc = "raised" /\ result = Raised(AllModelsFailed)) =>
        /\ Len(calls) >= 1
        /\ Len(calls) = Len(RequestedTierList)

\* HEAVY_MODELS unset: the one candidate "" was called, it was rate-limited,
\* the tier is exhausted
C18_Witness ==
    /\ heavy_models = <<"">>
    /\ light_models = <<"", "l1", "l2">>
    /\ IsText /\ args.model_tier = "heavy"
    /\ pc = "raised" /\ result = Raised(AllModelsFailed)
    /\ Len(calls) = 1 /\ calls[1].model = ""

(***************************************************************************)
(* Properties of the content-generation functions                          *)
(***************************************************************************)
HelperEnded == helper.pc = "done"

\* every adapter call of the helper's dispatch succeeded
HelperBackendHealthy ==
    \A i \in 1..Len(helper.calls) : helper.calls[i].outcome.kind = "ok"

\* C19 as stated: summarize_mp3 and article_mp3, called without extra
\* arguments while the default provider is Gemini and no adapter call fails,
\* make one generate_content_with_media call on the default provider with the
\* given path and return what that call returned.
C19_Claimed_Mp3HelpersReturn ==
    (/\ HelperEnded
     /\ helper.fn \in MediaHelpers
     /\ helper.provider = None
     /\ default_provider = "gemini"
     /\ HelperBackendHealthy) =>
        /\ helper.result.kind = "return"
        /\ Len(helper.calls) = 1
        /\ helper.calls[1].method = "generate_content_with_media"
        /\ helper.calls[1].provider = default_provider
        /\ helper.calls[1].media = helper.input
        /\ helper.result.value = OnSuccess(helper.fn, helper.calls[1].outcome.resp,
                                           helper.input)

\* C20: when the call of llm_service has raised, humanize_content returns its
\* input, find_relevant_tags_with_llm returns the empty list,
\* summarize_youtube_video returns None, and the other five functions raise
\* the error of the call.
C20_FailureHandling ==
    (HelperEnded /\ helper.dispatch.kind = "raise") =>
        CASE helper.fn = "humanize_content" ->
                 helper.result = HReturned(Value("str", <<helper.input>>))
          [] helper.fn = "find_relevant_tags_with_llm" ->
                 helper.result = HReturned(Value("list", <<>>))
          [] helper.fn = "summarize_youtube_video" ->
                 helper.result = HReturned(Value("NoneType", <<>>))
          [] OTHER ->
                 /\ helper.fn \in {"summarize_text", "generate_article", "summarize_article",
                                   "summarize_mp3", "article_mp3"}
                 /\ helper.result = HRaised(helper.dispatch.exc)

\* humanize_content: the one adapter call failed, the input comes back
C20_Witness ==
    /\ HelperEnded
    /\ helper.fn = "humanize_content"
    /\ Len(helper.calls) = 1 /\ helper.calls[1].outcome.kind = "err"
    /\ helper.dispatch.kind = "raise"
    /\ helper.result.kind = "return"
    /\ helper.result.value.items = <<"draft">>

(***************************************************************************)
(* Further properties of the dispatch calls                                *)
(***************************************************************************)
\* C21 as stated: the text of every LLMResponse returned by an adapter call
\* or by a dispatch call is a string, never None, whatever the backend
\* answered.
C21_Claimed_TextNeverNone ==
    /\ \A i \in 1..Len(calls) : Succeeded(i) => calls[i].outcome.resp.text # None
    /\ result.kind = "return" => result.resp.text # None

\* C22: in a generate_content call the i-th adapter call is made on the
\* resolved adapter with the i-th model of the selected list (heavy_models for
\* tier "heavy", light_models for any other tier), written to model_name just
\* before; every call before the last one failed, and there are never more
\* calls than candidates.
C22_AttemptsArePrefix ==
    IsText =>
        /\ Len(calls) <= Len(RequestedTierList)
        /\ \A i \in 1..Len(calls) : TextCall(i) /\ calls[i].model = RequestedTierList[i]
        /\ \A i \in 1..(Len(calls) - 1) : Failed(i)
        /\ Len(calls) >= 1 => model_name[provider_name] = RequestedTierList[Len(calls)]
        /\ pc = "text" => idx = Len(calls) + 1

\* tier "medium": both light candidates were tried in order
C22_Witness ==
    /\ IsText /\ args.model_tier = "medium"
    /\ light_models = <<"light-1", "light-2">>
    /\ Len(calls) = 2
    /\ calls[1].model = "light-1" /\ RateLimited(1)
    /\ calls[2].model = "light-2"
    /\ Finished

MediaStep == MediaPrimary \/ MediaFallback \/ MediaTextOnly

\* the providers called so far
ProvidersCalled == {calls[i].provider : i \in 1..Len(calls)}

\* C23: a generate_content_with_media call can always take its next step,
\* every step is one more adapter call, and there are at most three: the media
\* call on the resolved provider, the media call on the fallback provider and
\* the text-only call on the fallback provider. An error of the fallback's
\* media call other than NotImplementedError ends the call and is what it
\* raises, whatever that error is and whichever providers are registered.
C23_MediaEndsWithinThreeCalls ==
    /\ [](IsMedia =>
            /\ Len(calls) <= 3
            /\ Cardinality(ProvidersCalled) <= 2
            /\ pc \in {"media", "media_fallback", "media_textonly"} => ENABLED MediaStep
            /\ pc = "media" => Len(calls) = 0
            /\ pc = "media_fallback" => Len(calls) = 1
            /\ pc = "media_textonly" =>
                   Len(calls) = 2 /\ calls[2].outcome.exc.type = "NotImplementedError"
            /\ Len(calls) >= 2 =>
                   /\ MediaCall(1) /\ calls[1].provider = provider_name
                   /\ calls[2].provider = fallback_provider
                   /\ calls[2].method = "generate_content_with_media"
                   /\ (Failed(2) /\ calls[2].outcome.exc.type # "NotImplementedError") =>
                          pc = "raised" /\ result = Raised(calls[2].outcome.exc)
                                        /\ Len(calls) = 2
            /\ Len(calls) = 3 =>
                   /\ calls[3].provider = fallback_provider
                   /\ calls[3].method = "generate_content" /\ Finished)
    /\ [][(IsMedia /\ ~Finished) => Len(calls') = Len(calls) + 1]_vars

\* the fallback provider's media call was rate-limited too: the call ends there
C23_Witness ==
    /\ IsMedia /\ pc = "raised"
    /\ Len(calls) = 2 /\ RateLimited(1) /\ RateLimited(2)
    /\ calls[2].provider # calls[1].provider
    /\ result = Raised(calls[2].outcome.exc)

\* C24: no step of a dispatch call changes the registry, default_provider,
\* heavy_models or light_models; a step changes the model_name of an adapter
\* only if it is an attempt of generate_content and the adapter is the resolved
\* one; no step of generate_content_with_media changes any model_name.
C24_DispatchFrame ==
    [][/\ UNCHANGED config
       /\ DOMAIN model_name' = DOMAIN model_name
       /\ \A p \in DOMAIN model_name :
              model_name'[p] # model_name[p] =>
                  /\ IsText /\ pc = "text" /\ p = provider_name
                  /\ model_name'[p] = models[idx]
       /\ (IsMedia \/ args'.op = "generate_content_with_media") => UNCHANGED model_name
      ]_vars

\* a text call has left its candidate in the resolved adapter, the other
\* adapters have the model they were constructed with
C24_Witness ==
    /\ IsText /\ Finished /\ Len(calls) >= 1
    /\ Cardinality(Keys(providers)) = 3
    /\ model_name[provider_name] = calls[Len(calls)].model
    /\ model_name[provider_name] # ConfiguredModel(provider_name)
    /\ \A p \in Keys(providers) \ {provider_name} : model_name[p] = ConfiguredModel(p)

IsTitleAndBody(value, text) ==
    /\ value.type = "tuple" /\ Len(value.items) = 2
    /\ ~Contains(Spell[value.items[1]], <<"\n">>)
    /\ IF Contains(Spell[text], <<"\n">>)
       THEN Spell[value.items[1]] \o <<"\n">> \o Spell[value.items[2]] = Spell[text]
       ELSE value.items[1] = text /\ value.items[2] = ""

\* C26 as stated: when the dispatch call of summarize_text, summarize_article
\* or article_mp3 has returned a response with text t, the function returns
\* the pair (first line of t, other lines of t joined by "\n") and does not
\* raise.
C26_Claimed_TitleAndBody ==
    (/\ HelperEnded
     /\ helper.fn \in {"summarize_text", "summarize_article", "article_mp3"}
     /\ helper.dispatch.kind = "return") =>
        /\ helper.result.kind = "return"
        /\ IsTitleAndBody(helper.result.value, helper.dispatch.resp.text)

(***************************************************************************)
(* The content thread of main.py: run_content_processor                    *)
(***************************************************************************)
\* what Channel(channel_url).videos[:5] can list
ChannelListings == {<<>>, <<"v1">>, <<"v2", "v1">>}
\* what feedparser.parse(feed_url).entries can list
ArticleListings == {<<>>, <<"a1">>, <<"a2", "a1">>}
EpisodeListings == {<<"e1">>, <<"e1", "e0">>}
\* entry.published lies before 2025
PublishedBefore2025(entry) == entry = "e0"

\* mutant: the new ids are not written to the videos table
save_checked_video_ids_Unsaved(videos, video_ids) == videos
\* db.save_checked_video_ids(channel_url, video_ids): INSERT OR IGNORE INTO videos
save_checked_video_ids(videos, video_ids) == videos \cup Range(video_ids)

\* new_video_ids of check_new_videos: the listed ids that are not in the videos table
new_video_ids(channel_videos, checked_video_ids) ==
    SelectSeq(channel_videos, LAMBDA video_id : video_id \notin checked_video_ids)

\* db.is_article_processed(article_id), db.is_episode_processed(episode_id)
is_processed(p, entry) ==
    IF p.job = "rss" THEN entry \in p.processed_articles
                     ELSE entry \in p.processed_episodes

\* mutant: the entry is recorded whatever post_to_wordpress returned
Recorded_Always(response) == TRUE
\* if response: ... db.save_processed_article / db.save_processed_episode
Recorded(response) == response = "link"

\* where a job goes on when the processing of one id has ended without an
\* exception reaching the function's outer handler
NextOfLoop(job) == IF job = "videos" THEN "new_videos" ELSE "entries"
\* where a job goes on when article_mp3, summarize_article or post_to_wordpress
\* raises: process_new_videos ends in its outer handler, the feed loops continue
AfterException(job) == IF job = "videos" THEN "rss_feeds" ELSE "entries"

\* the state the content thread's steps leave alone
beside_poll == <<service, call, probe, requests, startup, helper, slug>>

InitPolling ==
    /\ NoService
    /\ NoCall
    /\ probe = NoProbe
    /\ requests = <<>>
    /\ startup = NoStartup
    /\ helper = NoHelper
    /\ slug = NoSlug
    /\ poll = [NoPoll EXCEPT !.at = "idle"]

\* run_content_processor() starts with process_new_videos(): channels = db.get_channels()
process_new_videos ==
    /\ poll.at = "idle"
    /\ poll.cycle < MaxCycles
    /\ poll' = [poll EXCEPT !.at = "channels", !.job = "videos", !.cycle = @ + 1,
                            !.channels = Channels, !.listed = {}, !.tried = {}]
    /\ UNCHANGED beside_poll

\* for channel_url in channels: new_video_ids = check_new_videos(channel_url, db);
\* Channel(channel_url) may raise, which ends process_new_videos
check_new_videos ==
    /\ poll.at = "channels"
    /\ IF poll.channels = <<>>
       THEN poll' = [poll EXCEPT !.at = "rss_feeds"]
       ELSE \E channel_videos \in ChannelListings, raises \in BOOLEAN :
              IF raises
              THEN poll' = [poll EXCEPT !.channels = <<>>, !.at = "rss_feeds"]
              ELSE LET new == new_video_ids(channel_videos, poll.videos)
                   IN  poll' = [poll EXCEPT
                          !.videos = IF new # <<>> THEN save_checked_video_ids(@, new) ELSE @,
                          !.new_video_ids = new,
                          !.channels = Tail(@),
                          !.listed = @ \cup Range(channel_videos),
                          !.at = "new_videos"]
    /\ UNCHANGED beside_poll

\* for video_id in new_video_ids: the id is handed to the download and the article
NextVideo ==
    /\ poll.at = "new_videos"
    /\ IF poll.new_video_ids = <<>>
       THEN poll' = [poll EXCEPT !.at = "channels"]
       ELSE LET video_id == Head(poll.new_video_ids)
            IN  poll' = [poll EXCEPT !.new_video_ids = Tail(@),
                                     !.id = video_id,
                                     !.handed[video_id] = @ + 1,
                                     !.tried = @ \cup {video_id},
                                     !.at = "download"]
    /\ UNCHANGED beside_poll

\* for attempt in range(3): download_audio_from_youtube(video_url, path), or
\* urllib.request.urlretrieve(mp3_url, mp3_path) for a podcast episode; after the
\* third failure the loops go on with the next id
Download ==
    /\ poll.at = "download"
    /\ \E ok \in BOOLEAN :
         IF ok
         THEN poll' = [poll EXCEPT !.attempt = 0, !.at = "article"]
         ELSE IF poll.attempt + 1 < 3
              THEN poll' = [poll EXCEPT !.attempt = @ + 1]
              ELSE poll' = [poll EXCEPT !.attempt = 0,
                                        !.id = None,
                                        !.failed = @ \cup {poll.id},
                                        !.at = NextOfLoop(poll.job)]
    /\ UNCHANGED beside_poll

\* post_title, article = article_mp3(...) or summarize_article(...)
Summarize ==
    /\ poll.at = "article"
    /\ \E ok \in BOOLEAN :
         IF ok
         THEN poll' = [poll EXCEPT !.at = "post"]
         ELSE poll' = [poll EXCEPT !.failed = @ \cup {poll.id},
                                   !.id = None,
                                   !.new_video_ids = <<>>,
                                   !.channels = <<>>,
                                   !.at = AfterException(poll.job)]
    /\ UNCHANGED beside_poll

\* response = post_to_wordpress(...); if response: the feed loops record the id
Post ==
    /\ poll.at = "post"
    /\ \E response \in {"link", None, "raises"} :
         IF response = "raises"
         THEN poll' = [poll EXCEPT !.failed = @ \cup {poll.id},
                                   !.id = None,
                                   !.new_video_ids = <<>>,
                                   !.channels = <<>>,
                                   !.at = AfterException(poll.job)]
         ELSE IF poll.job # "videos" /\ Recorded(response)
              THEN poll' = [poll EXCEPT
                      !.posted = IF response = "link" THEN @ \cup {poll.id} ELSE @,
                      !.at = "save"]
              ELSE poll' = [poll EXCEPT
                      !.failed = IF response = "link" THEN @ ELSE @ \cup {poll.id},
                      !.id = None,
                      !.at = NextOfLoop(poll.job)]
    /\ UNCHANGED beside_poll

\* UPDATE ... SET last_check; db.save_processed_article / db.save_processed_episode;
\* a failing statement is caught by the entry's handler
Save ==
    /\ poll.at = "save"
    /\ \E ok \in BOOLEAN :
         IF ~ok
         THEN poll' = [poll EXCEPT !.id = None, !.at = "entries"]
         ELSE IF poll.job = "rss"
              THEN poll' = [poll EXCEPT !.processed_articles = @ \cup {poll.id},
                                        !.id = None, !.at = "entries"]
              ELSE poll' = [poll EXCEPT !.processed_episodes = @ \cup {poll.id},
                                        !.id = None, !.at = "entries"]
    /\ UNCHANGED beside_poll

\* process_rss_feeds(): feed = feedparser.parse(feed_url)
process_rss_feeds ==
    /\ poll.at = "rss_feeds"
    /\ \E entries \in ArticleListings :
         poll' = [poll EXCEPT !.job = "rss", !.entries = entries,
                              !.listed = Range(entries), !.tried = {}, !.at = "entries"]
    /\ UNCHANGED beside_poll

\* process_podcast_feeds(): feed = feedparser.parse(feed_url); if feed.bozo: continue
process_podcast_feeds ==
    /\ poll.at = "podcast_feeds"
    /\ \E entries \in EpisodeListings, bozo \in BOOLEAN :
         IF bozo
         THEN poll' = [poll EXCEPT !.job = "podcast", !.listed = {}, !.tried = {},
                                   !.at = "idle"]
         ELSE poll' = [poll EXCEPT !.job = "podcast", !.entries = entries,
                                   !.listed = Range(entries), !.tried = {},
                                   !.at = "entries"]
    /\ UNCHANGED beside_poll

\* for entry in feed.entries: skip the old and the processed ones
NextEntry ==
    /\ poll.at = "entries"
    /\ IF poll.entries = <<>>
       THEN poll' = [poll EXCEPT !.at = IF poll.job = "rss" THEN "podcast_feeds" ELSE "idle"]
       ELSE LET entry == Head(poll.entries)
            IN  IF (poll.job = "podcast" /\ PublishedBefore2025(entry)) \/ is_processed(poll, entry)
                THEN poll' = [poll EXCEPT !.entries = Tail(@)]
                ELSE poll' = [poll EXCEPT !.entries = Tail(@),
                                          !.id = entry,
                                          !.tried = @ \cup {entry},
                                          !.at = IF poll.job = "rss" THEN "article"
                                                                   ELSE "download"]
    /\ UNCHANGED beside_poll

NextPolling ==
    \/ process_new_videos
    \/ check_new_videos
    \/ NextVideo
    \/ Download
    \/ Summarize
    \/ Post
    \/ Save
    \/ process_rss_feeds
    \/ process_podcast_feeds
    \/ NextEntry

SpecPolling == InitPolling /\ [][NextPolling]_vars

(***************************************************************************)
(* generate_slug                                                           *)
(***************************************************************************)
Digits == {"0", "1", "2", "3", "4", "5", "6", "7", "8", "9"}
\* str.isalnum() on one character: letters of any script and digits; the characters
\* U+4E2D and U+6587 are written by their code points
isalnum(c) == c \in Range(LowerCaseLetters) \cup Range(UpperCaseLetters) \cup Digits \cup {"U+4E2D", "U+6587"}

\* n copies of the character c
Repeat(c, n) == [i \in 1..n |-> c]
\* chars[:n]
Prefix(chars, n) == SubSeq(chars, 1, IF Len(chars) < n THEN Len(chars) ELSE n)

\* str.rstrip('-')
RECURSIVE rstrip_hyphen(_)
rstrip_hyphen(chars) ==
    IF chars # <<>> /\ chars[Len(chars)] = "-"
    THEN rstrip_hyphen(SubSeq(chars, 1, Len(chars) - 1))
    ELSE chars

\* re.fullmatch(r'^[a-z0-9]+(?:-[a-z0-9]+)*$', chars)
fullmatch(chars) ==
    /\ chars # <<>>
    /\ \A i \in 1..Len(chars) : chars[i] \in Range(LowerCaseLetters) \cup Digits \cup {"-"}
    /\ chars[1] # "-"
    /\ chars[Len(chars)] # "-"
    /\ \A i \in 1..(Len(chars) - 1) : ~(chars[i] = "-" /\ chars[i + 1] = "-")

\* mutant: the slug is not cut to 50 characters
CleanSlug_Uncut(text) ==
    rstrip_hyphen(SelectSeq(lower(StripChars(text)), LAMBDA c : isalnum(c) \/ c = "-"))

\* slug = response.text.strip().lower(); keep alphanumerics and hyphens;
\* slug[:50].rstrip('-')
CleanSlug(text) ==
    rstrip_hyphen(Prefix(SelectSeq(lower(StripChars(text)),
                                   LAMBDA c : isalnum(c) \/ c = "-"), 50))

\* ''.join(c if c.isalnum() or c == '-' else '-' for c in title[:30].lower())
FallbackSlug(title) ==
    LET chars == lower(Prefix(title, 30))
    IN  [i \in 1..Len(chars) |-> IF isalnum(chars[i]) \/ chars[i] = "-" THEN chars[i] ELSE "-"]

\* the titles generate_slug is called with
SlugTitles ==
    { <<"T", "e", "s", "t", " ", "T", "i", "t", "l", "e">>,
      <<"U+4E2D", "U+6587">>,
      Repeat("x", 29) \o <<"!", "y", "z">> }

\* response.text of a dispatch that returned: None for a reply without content
SlugTexts ==
    { <<"v", "a", "l", "i", "d", "-", "s", "l", "u", "g">>,
      <<" ", "M", "y", " ", "S", "l", "u", "g", "!", "\n">>,
      <<"a", "-", "-", "b">>,
      <<"-", "a", "b">>,
      <<"s", "l", "u", "g", "-", "U+4E2D", "U+6587">>,
      <<"!", "?">>,
      Repeat("a", 49) \o <<"-", "b", "c">>,
      <<"-">> \o Repeat("a", 52) }

SlugReturned(chars, count) == [kind |-> "return", slug |-> chars, count |-> count]
SlugRaised(count) == [kind |-> "raise", slug |-> <<>>, count |-> count]

\* the state the steps of generate_slug leave alone
beside_slug == <<service, call, probe, requests, startup, helper, poll>>

InitSlug ==
    /\ NoService
    /\ NoCall
    /\ probe = NoProbe
    /\ requests = <<>>
    /\ startup = NoStartup
    /\ helper = NoHelper
    /\ poll = NoPoll
    /\ slug = NoSlug

\* generate_slug(title): the caller's call, count = 0
generate_slug ==
    /\ slug.pc = "idle"
    /\ \E title \in SlugTitles :
         slug' = [NoSlug EXCEPT !.pc = "try", !.title = title, !.frames = <<0>>]
    /\ UNCHANGED beside_slug

\* the try block of the innermost frame: one llm_service.generate_content call,
\* the clean-up of its text, and either the recursive call or the return, which
\* every calling frame passes on unchanged
SlugTry ==
    /\ slug.pc = "try"
    /\ LET count == slug.frames[Len(slug.frames)]
       IN  \E outcome \in {"text", "None", "raises"} :
             CASE outcome = "raises" ->
                    slug' = [slug EXCEPT !.dispatches = @ + 1, !.text = <<>>,
                                         !.exc = "dispatch", !.failed_at = count,
                                         !.pc = "except"]
               [] outcome = "None" ->
                    slug' = [slug EXCEPT !.dispatches = @ + 1, !.text = <<>>,
                                         !.exc = "AttributeError", !.failed_at = count,
                                         !.pc = "except"]
               [] OTHER ->
                    \E text \in SlugTexts :
                      IF ~fullmatch(CleanSlug(text)) /\ count < 5
                      THEN slug' = [slug EXCEPT
                               !.dispatches = @ + 1, !.text = text,
                               !.frames = [@ EXCEPT ![Len(@)] = count + 1] \o <<count + 1>>]
                      ELSE slug' = [slug EXCEPT
                               !.dispatches = @ + 1, !.text = text, !.frames = <<>>,
                               !.result = SlugReturned(CleanSlug(text), count),
                               !.pc = "done"]
    /\ UNCHANGED beside_slug

\* the except block of the innermost frame that is still active: the fallback
\* slug if its count >= 5, else raise, into the calling frame's try block
SlugExcept ==
    /\ slug.pc = "except"
    /\ LET count == slug.frames[Len(slug.frames)]
           callers == SubSeq(slug.frames, 1, Len(slug.frames) - 1)
       IN  IF count >= 5
           THEN slug' = [slug EXCEPT !.frames = <<>>,
                                     !.result = SlugReturned(FallbackSlug(slug.title), count),
                                     !.pc = "done"]
           ELSE IF callers = <<>>
                THEN slug' = [slug EXCEPT !.frames = <<>>,
                                          !.result = SlugRaised(count),
                                          !.pc = "done"]
                ELSE slug' = [slug EXCEPT !.frames = callers]
    /\ UNCHANGED beside_slug

NextSlug == generate_slug \/ SlugTry \/ SlugExcept

\* a call that has begun is run to its end
FairSpecSlug == InitSlug /\ [][NextSlug]_vars /\ WF_vars(SlugTry \/ SlugExcept)

(***************************************************************************)
(* The model left behind by generate_content                               *)
(***************************************************************************)
\* C27 as stated: when a generate_content call has ended after at least one
\* attempt, model_name of the resolved adapter is the last candidate attempted;
\* and an adapter's generate_content_with_media is answered by the model its
\* model_name holds, the one the last generate_content call on it left there.
C27_Claimed_MediaRunsWithLeftModel ==
    /\ (IsText /\ Finished /\ Len(calls) >= 1) =>
           model_name[provider_name] = calls[Len(calls)].model
    /\ \A i \in 1..Len(calls) :
           (calls[i].method = "generate_content_with_media" /\ Succeeded(i)) =>
               calls[i].outcome.resp.raw_response.model = model_name[calls[i].provider]

(***************************************************************************)
(* Polling cycles                                                          *)
(***************************************************************************)
InVideoProcessing == poll.job = "videos" /\ poll.at \in {"download", "article", "post"}

\* C28: over all polling cycles a video id is handed to the download at most
\* once, and every id that is waiting for or is in download, article generation
\* or publishing has already been written to the videos table.
C28_HandedAtMostOnce ==
    /\ \A v \in VideoIds : poll.handed[v] <= 1
    /\ \A v \in VideoIds : poll.handed[v] >= 1 => v \in poll.videos
    /\ Range(poll.new_video_ids) \subseteq poll.videos
    /\ InVideoProcessing => poll.id \in poll.videos

\* in a second cycle the channel lists again a video whose processing failed in
\* the first, and check_new_videos does not return it
C28_Witness ==
    /\ poll.cycle = 2
    /\ poll.job = "videos"
    /\ poll.at = "new_videos"
    /\ poll.new_video_ids = <<>>
    /\ "v1" \in poll.listed
    /\ "v1" \in poll.failed
    /\ "v1" \notin poll.tried
    /\ poll.handed["v1"] = 1

Processed == poll.processed_articles \cup poll.processed_episodes
InEntryProcessing ==
    poll.job \in {"rss", "podcast"} /\ poll.at \in {"download", "article", "post", "save"}
FeedDone ==
    \/ poll.job = "rss" /\ poll.at = "podcast_feeds"
    \/ poll.job = "podcast" /\ poll.at = "idle" /\ poll.listed # {}

\* C29: an article or episode id is in its processed table only if a publish
\* call for it returned a link, and the tables grow only by the id whose publish
\* has just returned one; an id in a processed table is not downloaded,
\* summarized, published or recorded again; and when a feed's loop ends, every
\* entry it listed that is still unrecorded (and not older than 2025) was
\* attempted in this cycle, whatever failed in earlier cycles.
C29_RecordedOnlyAfterLink ==
    /\ [](Processed \subseteq poll.posted)
    /\ [](InEntryProcessing => poll.id \notin Processed)
    /\ [](FeedDone => \A entry \in poll.listed :
              entry \in Processed \/ entry \in poll.tried \/ PublishedBefore2025(entry))
    /\ [][\/ /\ poll'.processed_articles = poll.processed_articles
             /\ poll'.processed_episodes = poll.processed_episodes
          \/ /\ poll.at = "save"
             /\ poll.id \in poll.posted
             /\ poll'.processed_articles \cup poll'.processed_episodes = Processed \cup {poll.id}]_vars

\* an article whose summarization or publish failed in the first cycle is
\* attempted again in the second, published and recorded
C29_Witness ==
    /\ poll.cycle = 2
    /\ poll.job = "rss"
    /\ "a1" \in poll.failed
    /\ "a1" \in poll.tried
    /\ "a1" \in poll.processed_articles

(***************************************************************************)
(* generate_slug: termination and the returned slug                        *)
(***************************************************************************)
\* C30: a generate_slug(title) call with count = 0 ends, after at most 6
\* dispatch calls; if no dispatch call failed, a returned slug has at most 50
\* characters and matches ^[a-z0-9]+(?:-[a-z0-9]+)*$ unless it comes from the
\* attempt with count = 5; a failure at count < 5 ends the call with an
\* exception, and the title-derived fallback is returned only after a failure
\* at count >= 5.
C30_SlugTerminates ==
    /\ [](slug.dispatches <= 6)
    /\ [](slug.pc = "done" =>
            /\ (slug.result.kind = "return" /\ slug.exc # "dispatch") =>
                   /\ Len(slug.result.slug) <= 50
                   /\ fullmatch(slug.result.slug) \/ slug.result.count = 5
            /\ (slug.exc # None /\ slug.failed_at < 5) => slug.result.kind = "raise"
            /\ (slug.exc # None /\ slug.failed_at >= 5) =>
                   slug.result = SlugReturned(FallbackSlug(slug.title), 5)
            /\ slug.exc = None => slug.result.kind = "return")
    /\ (slug.pc = "try" ~> slug.pc = "done")

\* five replies that do not clean up to a valid slug, and a sixth whose slug is
\* returned although it is not valid either
C30_Witness ==
    /\ slug.pc = "done"
    /\ slug.dispatches = 6
    /\ slug.exc = None
    /\ slug.result.kind = "return"
    /\ slug.result.count = 5
    /\ ~fullmatch(slug.result.slug)
    /\ Len(slug.result.slug) = 50

====
